---- MODULE Spec2Model ----
(***************************************************************************)
(* The nRF52 802.15.4 radio driver (src/src/radio.rs) and the RADIO        *)
(* peripheral it drives.  Software operations run one register access (or  *)
(* one run of accesses the peripheral cannot interleave with) per step, so *)
(* that the peripheral's autonomous shortcut chain interleaves with them.  *)
(* The TIMER driver (src/src/timer.rs) and Radio's channel selection do    *)
(* not interact with that state machine; they have specifications of their *)
(* own over registers of their own.                                        *)
(***************************************************************************)
EXTENDS Integers, Sequences, FiniteSets, TLC

VARIABLES
    hwstate,    \* RADIO.STATE
    shorts,     \* RADIO.SHORTS, the set of enabled shortcuts
    ev,         \* the EVENTS_* registers the driver reads
    packetptr,  \* RADIO.PACKETPTR: "null" (reset value) or "buffer"
    intens,     \* enabled interrupts (INTENSET / INTENCLR)
    edcnt,      \* RADIO.EDCNT
    edsample,   \* RADIO.EDSAMPLE
    rxframe,    \* header of the frame being received, NoFrame when none
    buffer,     \* Radio.buffer, the internal frame buffer
    state,      \* Radio.state, the SEND bit flag
    pc,         \* position of the running operation, "idle" between calls
    op,         \* the operation running, or the last one that ran
    data,       \* queue_transmission's argument
    length,     \* receive_slice's local `length`
    cbuf,       \* the caller's buffer handed to receive_slice
    ret,        \* what the last operation returned
    frequency,  \* RADIO.FREQUENCY, the offset from 2400 MHz
    cc,         \* TIMER.CC[0..5]
    events_compare, \* TIMER.EVENTS_COMPARE[0..5]
    timer_inten,    \* TIMER interrupt enables (INTENSET / INTENCLR), channel ids
    counter,    \* the TIMER's internal counter
    running,    \* the TIMER has been started
    tcalls,     \* number of calls made to the Timer so far
    last        \* the last Timer or channel call: operation, arguments, result

timervars == <<cc, events_compare, timer_inten, counter, running, tcalls>>

\* what the operations of the radio's state machine never touch
auxvars == <<frequency, timervars, last>>

vars == <<hwstate, shorts, ev, packetptr, intens, edcnt, edsample, rxframe,
          buffer, state, pc, op, data, length, cbuf, ret, auxvars>>

hwvars == <<hwstate, shorts, ev, packetptr, intens, edcnt, edsample, rxframe>>

(***************************************************************************)
(* Program constants                                                       *)
(***************************************************************************)
MAX_PACKET_LENGHT == 129
STATE_SEND == 1

(***************************************************************************)
(* Bounds of the model                                                     *)
(***************************************************************************)
\* longest ordinary frame the air delivers (the 127 octet frame is added)
MaxRxLen == 1
\* longest ordinary payload the caller queues (125 and 126 octets are added)
MaxTxLen == 0

Byte == 0..255
BufIdx == 0..(MAX_PACKET_LENGHT - 1)
NoFrame == 0 - 1

Events == {"PHYEND", "DISABLED", "READY", "CCABUSY", "BCMATCH", "EDEND"}

RxShorts == {"RXREADY_START", "PHYEND_START"}
TxShorts == {"RXREADY_CCASTART", "CCAIDLE_TXEN", "TXREADY_START",
             "CCABUSY_DISABLE", "PHYEND_DISABLE"}
EdShorts == {"READY_EDSTART", "EDEND_DISABLE"}

StdInts == {"READY", "DISABLED", "CCABUSY", "PHYEND", "BCMATCH"}

RxStates == {"RXRU", "RXIDLE", "RX", "CCA", "ED"}
TxStates == {"TXRU", "TXIDLE", "TX"}

\* PHY headers the air delivers: ordinary lengths, the longest frame, and
\* a header with bit 7 set over a non-zero low part.
Headers == (0..MaxRxLen) \cup {127, 128 + MaxRxLen}

\* Octet i of the frame whose header is h, as the peripheral stores it.
FrameOctet(h, i) == (h * 7 + i) % 256

\* Payloads the caller queues: octet i of a payload of length l.
Payload(l) == [i \in 1..l |-> (80 + i) % 256]
Payloads == {Payload(l) : l \in (0..MaxTxLen) \cup {125, 126}}

\* What the caller's buffer holds before the driver first writes it.
CallerFills == {238}
Fresh(f) == [i \in BufIdx |-> f]

\* Sample counts the caller asks for, around both ends of the valid range.
ED_COUNT_MAX == 1048576
Counts == {0, 1}
\* the same with the upper end, for the energy detection taken alone
EdCounts == {0, 1, ED_COUNT_MAX, ED_COUNT_MAX + 1}

\* Energy levels the peripheral samples.
EdLevels == {0}
\* the same with a level that is not the register's reset value
EdSamples == {0, 7}

Ret(k, v) == [kind |-> k, val |-> v]

\* The TIMER is a 32 bit timer (self.bitmode.write(|w| w.bitmode()._32bit()));
\* a u32 is kept as its two 16 bit halves, <<high, low>>.
Half == 65536
U32(n) == <<n \div Half, n % Half>>
MaxU32 == <<Half - 1, Half - 1>>
\* compare channels of the TIMER; channel 0 is the free-running clock
TimerChannels == 0..5
\* channels with an interrupt enable wired in fire_in and stop
WiredChannels == {1, 2, 3}
\* channel ids the caller passes, with both ids next to the asserted range
TimerIds == 0..6
\* delays the caller asks for: the shortest, and one that wraps around
Delays == {U32(1), MaxU32}
\* calls made to the Timer in one run
MaxTimerCalls == 3
\* how far the counter runs
MaxNow == 2

\* channels the caller selects: every u8
Channels == 0..255
\* RADIO.FREQUENCY after reset
FREQUENCY_RESET == 2

\* a Timer or channel call: the operation, its id or channel, its argument,
\* what it returned
Call(o, i, a, v) == [op |-> o, id |-> i, arg |-> a, val |-> v]
NoCall == Call("none", 0, U32(0), U32(0))
\* between calls: nothing returned, no caller buffer lent to the driver
NoRet == Ret("none", 0)
NoBuffer == [i \in BufIdx |-> 0]

(***************************************************************************)
(* The peripheral's tasks                                                  *)
(***************************************************************************)
\* TASKS_RXEN: ramps the receiver up from DISABLED.
TaskRxen(s) == IF s = "DISABLED" THEN "RXRU" ELSE s

\* TASKS_DISABLE: ramps down whatever is running.
TaskDisable(s) ==
    IF s \in RxStates THEN "RXDISABLE"
    ELSE IF s \in TxStates THEN "TXDISABLE"
    ELSE s

\* TASKS_START
TaskStart(s) ==
    IF s = "RXIDLE" THEN "RX"
    ELSE IF s = "TXIDLE" THEN "TX"
    ELSE s

SetEv(e) == [ev EXCEPT ![e] = TRUE]
ClearEv(e) == [ev EXCEPT ![e] = FALSE]

(***************************************************************************)
(* Radio: pure parts                                                       *)
(***************************************************************************)
\* self.state & STATE_SEND == STATE_SEND
IsSend(s) == (s \div STATE_SEND) % 2 = 1

\* self.state |= STATE_SEND
SetSend(s) == IF IsSend(s) THEN s ELSE s + STATE_SEND

\* the length receive_slice decodes from the PHY header
\* (mutant) the length decoded without looking at bit 7
DecodeLength_IgnoresMarker(phr) == phr % 128

DecodeLength(phr) == IF (phr \div 128) % 2 = 0 THEN phr % 128 ELSE 0

\* (mutant) one octet more than the length is copied
CopyFrame_WithOctetAfter(dst, src, phr, len) ==
    [i \in BufIdx |->
        IF i = 0 THEN phr % 128
        ELSE IF i >= 1 /\ i <= len + 1 THEN src[i]
        ELSE dst[i]]

\* buffer[0] = phr & 0x7f; buffer[1..=length].copy_from_slice(&self.buffer[1..=length])
CopyFrame(dst, src, phr, len) ==
    [i \in BufIdx |->
        IF i = 0 THEN phr % 128
        ELSE IF i >= 1 /\ i <= len THEN src[i]
        ELSE dst[i]]

\* (mutant) the header holds the length of the payload alone
WriteFrame_HeaderIsLength(buf, d) ==
    [i \in BufIdx |->
        IF i = 0 THEN Len(d) % 256
        ELSE IF i >= 1 /\ i < (Len(d) + 2) - 1 THEN d[i]
        ELSE buf[i]]

\* self.buffer[0] = tx_length; self.buffer[1..(tx_length - 1)].copy_from_slice(data)
WriteFrame(buf, d) ==
    [i \in BufIdx |->
        IF i = 0 THEN (Len(d) + 2) % 256
        ELSE IF i >= 1 /\ i < (Len(d) + 2) - 1 THEN d[i]
        ELSE buf[i]]

\* (mutant) the assertion lets a 128 octet frame through
TxLengthOk_Inclusive(d) == Len(d) + 2 <= MAX_PACKET_LENGHT - 1

\* assert!(tx_length < (MAX_PACKET_LENGHT - 1))
TxLengthOk(d) == Len(d) + 2 < MAX_PACKET_LENGHT - 1

(***************************************************************************)
(* Radio::new                                                              *)
(***************************************************************************)
Init ==
    /\ hwstate = "DISABLED"
    /\ shorts = {}
    /\ ev = [e \in Events |-> FALSE]
    /\ packetptr = "null"
    /\ intens = StdInts
    /\ edcnt = 0
    /\ edsample = 0
    /\ rxframe = NoFrame
    /\ buffer = [i \in BufIdx |-> 0]
    /\ state = 0
    /\ pc = "idle"
    /\ op = "none"
    /\ data = <<>>
    /\ length = 0
    /\ cbuf = NoBuffer
    /\ ret = NoRet
    /\ frequency = FREQUENCY_RESET
    /\ cc = [i \in TimerChannels |-> U32(0)]
    /\ events_compare = [i \in TimerChannels |-> FALSE]
    /\ timer_inten = {}
    /\ counter = U32(0)
    /\ running = FALSE
    /\ tcalls = 0
    /\ last = NoCall

(***************************************************************************)
(* Radio::enter_disabled, run on behalf of the operation `op`              *)
(***************************************************************************)
\* where the caller of enter_disabled goes on
AfterBarrier(o) ==
    IF o = "queue_transmission" THEN "qt_write"
    ELSE IF o = "start_energy_detect" THEN "sed_body"
    ELSE "rp_arm"

\* if self.state() != DISABLED
EnterDisabledCheck ==
    /\ pc = "ed_check"
    /\ pc' = IF hwstate # "DISABLED" THEN "ed_task" ELSE "ed_reset"
    /\ UNCHANGED <<hwvars, buffer, state, op, data, length, cbuf, ret>>
    /\ UNCHANGED auxvars

\* (mutant) the barrier waits without having issued the disable task
EnterDisabledTask_NoTask ==
    /\ pc = "ed_task"
    /\ pc' = "ed_wait"
    /\ UNCHANGED <<hwvars, buffer, state, op, data, length, cbuf, ret>>
    /\ UNCHANGED auxvars

\* tasks_disable.write(set_bit)
EnterDisabledTask ==
    /\ pc = "ed_task"
    /\ hwstate' = TaskDisable(hwstate)
    /\ rxframe' = NoFrame
    /\ pc' = "ed_wait"
    /\ UNCHANGED <<shorts, ev, packetptr, intens, edcnt, edsample,
                   buffer, state, op, data, length, cbuf, ret>>
    /\ UNCHANGED auxvars

\* (mutant) the barrier does not wait for the DISABLED event
EnterDisabledWait_NoWait ==
    /\ pc = "ed_wait"
    /\ pc' = "ed_reset"
    /\ UNCHANGED <<hwvars, buffer, state, op, data, length, cbuf, ret>>
    /\ UNCHANGED auxvars

\* loop { if events_disabled is set { break } }
EnterDisabledWait ==
    /\ pc = "ed_wait"
    /\ ev["DISABLED"]
    /\ pc' = "ed_reset"
    /\ UNCHANGED <<hwvars, buffer, state, op, data, length, cbuf, ret>>
    /\ UNCHANGED auxvars

\* events_disabled.reset()
EnterDisabledReset ==
    /\ pc = "ed_reset"
    /\ ev' = ClearEv("DISABLED")
    /\ pc' = AfterBarrier(op)
    /\ UNCHANGED <<hwstate, shorts, packetptr, intens, edcnt, edsample, rxframe,
                   buffer, state, op, data, length, cbuf, ret>>
    /\ UNCHANGED auxvars

(***************************************************************************)
(* Radio::receive_prepare                                                  *)
(***************************************************************************)
ReceivePrepareCall ==
    /\ pc = "idle"
    /\ pc' = "ed_check"
    /\ op' = "receive_prepare"
    /\ UNCHANGED <<hwvars, buffer, state, data, length, cbuf, ret>>
    /\ UNCHANGED auxvars

\* (mutant) the shortcuts are installed but the receiver is not enabled
ReceivePrepareArm_NoRxen ==
    /\ pc = "rp_arm"
    /\ shorts' = RxShorts
    /\ IF op = "receive_slice"
         THEN pc' = "rs_cca_clear" /\ ret' = ret
         ELSE pc' = "returned" /\ ret' = Ret("unit", 0)
    /\ UNCHANGED <<hwstate, ev, packetptr, intens, edcnt, edsample, rxframe,
                   buffer, state, op, data, length, cbuf>>
    /\ UNCHANGED auxvars

\* shorts.reset(); shorts.write(rxready_start, phyend_start); tasks_rxen.
\* Returns to receive_slice's CCABUSY branch when called from there.
ReceivePrepareArm ==
    /\ pc = "rp_arm"
    /\ shorts' = RxShorts
    /\ hwstate' = TaskRxen(hwstate)
    /\ IF op = "receive_slice"
         THEN pc' = "rs_cca_clear" /\ ret' = ret
         ELSE pc' = "returned" /\ ret' = Ret("unit", 0)
    /\ UNCHANGED <<ev, packetptr, intens, edcnt, edsample, rxframe,
                   buffer, state, op, data, length, cbuf>>
    /\ UNCHANGED auxvars

(***************************************************************************)
(* Radio::receive_slice, one event flag per step                           *)
(***************************************************************************)
\* (mutant) the PHYEND branch without the SEND test
ReceiveSlicePhyend_IgnoresSend(f) ==
    /\ pc = "idle"
    /\ op' = "receive_slice"
    /\ pc' = "rs_disabled"
    /\ IF ev["PHYEND"]
         THEN LET phr == buffer[0]
                  len == DecodeLength(phr)
              IN /\ buffer' = [buffer EXCEPT ![0] = 0]
                 /\ cbuf' = IF len > 0 THEN CopyFrame(Fresh(f), buffer, phr, len)
                                       ELSE Fresh(f)
                 /\ length' = len
                 /\ ev' = ClearEv("PHYEND")
         ELSE /\ length' = 0
              /\ cbuf' = Fresh(f)
              /\ UNCHANGED <<buffer, ev>>
    /\ UNCHANGED <<hwstate, shorts, packetptr, intens, edcnt, edsample, rxframe,
                   state, data, ret>>
    /\ UNCHANGED auxvars

\* the call, with a buffer holding f in every octet, and the PHYEND branch
ReceiveSlicePhyend(f) ==
    /\ pc = "idle"
    /\ op' = "receive_slice"
    /\ pc' = "rs_disabled"
    /\ IF ev["PHYEND"]
         THEN LET phr == buffer[0]
                  len == IF IsSend(state) THEN 0 ELSE DecodeLength(phr)
              IN /\ buffer' = [buffer EXCEPT ![0] = 0]
                 /\ cbuf' = IF len > 0 THEN CopyFrame(Fresh(f), buffer, phr, len)
                                       ELSE Fresh(f)
                 /\ length' = len
                 /\ ev' = ClearEv("PHYEND")
         ELSE /\ length' = 0
              /\ cbuf' = Fresh(f)
              /\ UNCHANGED <<buffer, ev>>
    /\ UNCHANGED <<hwstate, shorts, packetptr, intens, edcnt, edsample, rxframe,
                   state, data, ret>>
    /\ UNCHANGED auxvars

\* (mutant) the DISABLED branch clears SEND without enabling the receiver
ReceiveSliceDisabled_NoRxen ==
    /\ pc = "rs_disabled"
    /\ pc' = "rs_ready"
    /\ IF ev["DISABLED"]
         THEN /\ IF IsSend(state)
                   THEN /\ shorts' = RxShorts
                        /\ state' = 0
                        /\ UNCHANGED hwstate
                   ELSE UNCHANGED <<shorts, hwstate, state>>
              /\ ev' = ClearEv("DISABLED")
         ELSE UNCHANGED <<shorts, hwstate, state, ev>>
    /\ UNCHANGED <<packetptr, intens, edcnt, edsample, rxframe,
                   buffer, op, data, length, cbuf, ret>>
    /\ UNCHANGED auxvars

\* the DISABLED branch
ReceiveSliceDisabled ==
    /\ pc = "rs_disabled"
    /\ pc' = "rs_ready"
    /\ IF ev["DISABLED"]
         THEN /\ IF IsSend(state)
                   THEN /\ shorts' = RxShorts
                        /\ hwstate' = TaskRxen(hwstate)
                        /\ state' = 0
                   ELSE UNCHANGED <<shorts, hwstate, state>>
              /\ ev' = ClearEv("DISABLED")
         ELSE UNCHANGED <<shorts, hwstate, state, ev>>
    /\ UNCHANGED <<packetptr, intens, edcnt, edsample, rxframe,
                   buffer, op, data, length, cbuf, ret>>
    /\ UNCHANGED auxvars

\* (mutant) the READY branch writes the packet pointer on every poll
ReceiveSliceReady_AlwaysPoints ==
    /\ pc = "rs_ready"
    /\ pc' = "rs_ccabusy"
    /\ packetptr' = "buffer"
    /\ ev' = ClearEv("READY")
    /\ UNCHANGED <<hwstate, shorts, intens, edcnt, edsample, rxframe,
                   buffer, state, op, data, length, cbuf, ret>>
    /\ UNCHANGED auxvars

\* the READY branch
ReceiveSliceReady ==
    /\ pc = "rs_ready"
    /\ pc' = "rs_ccabusy"
    /\ IF ev["READY"]
         THEN /\ packetptr' = "buffer"
              /\ ev' = ClearEv("READY")
         ELSE UNCHANGED <<packetptr, ev>>
    /\ UNCHANGED <<hwstate, shorts, intens, edcnt, edsample, rxframe,
                   buffer, state, op, data, length, cbuf, ret>>
    /\ UNCHANGED auxvars

\* the CCABUSY branch: enters receive_prepare when the flag is set
ReceiveSliceCcaBusy ==
    /\ pc = "rs_ccabusy"
    /\ pc' = IF ev["CCABUSY"] THEN "ed_check" ELSE "rs_bcmatch"
    /\ UNCHANGED <<hwvars, buffer, state, op, data, length, cbuf, ret>>
    /\ UNCHANGED auxvars

\* (mutant) the CCABUSY branch falls through to Ok(length)
ReceiveSliceCcaClear_ReturnsLength ==
    /\ pc = "rs_cca_clear"
    /\ ev' = ClearEv("CCABUSY")
    /\ ret' = Ret("Ok", length)
    /\ length' = 0
    /\ pc' = "returned"
    /\ UNCHANGED <<hwstate, shorts, packetptr, intens, edcnt, edsample, rxframe,
                   buffer, state, op, data, cbuf>>
    /\ UNCHANGED auxvars

\* events_ccabusy.reset(); return Err(Error::CcaBusy)
ReceiveSliceCcaClear ==
    /\ pc = "rs_cca_clear"
    /\ ev' = ClearEv("CCABUSY")
    /\ ret' = Ret("Err", 0)
    /\ length' = 0
    /\ pc' = "returned"
    /\ UNCHANGED <<hwstate, shorts, packetptr, intens, edcnt, edsample, rxframe,
                   buffer, state, op, data, cbuf>>
    /\ UNCHANGED auxvars

\* the BCMATCH branch; Ok(length)
ReceiveSliceBcMatch ==
    /\ pc = "rs_bcmatch"
    /\ ev' = IF ev["BCMATCH"] THEN ClearEv("BCMATCH") ELSE ev
    /\ ret' = Ret("Ok", length)
    /\ length' = 0
    /\ pc' = "returned"
    /\ UNCHANGED <<hwstate, shorts, packetptr, intens, edcnt, edsample, rxframe,
                   buffer, state, op, data, cbuf>>
    /\ UNCHANGED auxvars

(***************************************************************************)
(* Radio::queue_transmission                                               *)
(***************************************************************************)
\* The call; the barrier does not look at the payload.
QueueTransmissionCall ==
    /\ pc = "idle"
    /\ pc' = "ed_check"
    /\ op' = "queue_transmission"
    /\ UNCHANGED <<hwvars, buffer, state, data, length, cbuf, ret>>
    /\ UNCHANGED auxvars

\* With the payload d the caller passed: the length assertion, the frame
\* written to the buffer, the shortcuts.
QueueTransmissionWrite(d) ==
    /\ pc = "qt_write"
    /\ data' = d
    /\ IF TxLengthOk(d)
         THEN /\ buffer' = WriteFrame(buffer, d)
              /\ shorts' = TxShorts
              /\ pc' = "qt_start"
              /\ ret' = ret
         ELSE /\ pc' = "panicked"
              /\ ret' = Ret("panic", 0)
              /\ UNCHANGED <<buffer, shorts>>
    /\ UNCHANGED <<hwstate, ev, packetptr, intens, edcnt, edsample, rxframe,
                   state, op, length, cbuf>>
    /\ UNCHANGED auxvars

\* compiler_fence; tasks_rxen; self.state |= STATE_SEND; data_length
QueueTransmissionStart ==
    /\ pc = "qt_start"
    /\ hwstate' = TaskRxen(hwstate)
    /\ state' = SetSend(state)
    /\ ret' = Ret("Ok", Len(data))
    /\ data' = <<>>
    /\ pc' = "returned"
    /\ UNCHANGED <<shorts, ev, packetptr, intens, edcnt, edsample, rxframe,
                   buffer, op, length, cbuf>>
    /\ UNCHANGED auxvars

(***************************************************************************)
(* Radio::start_energy_detect and Radio::report_energy_detect              *)
(***************************************************************************)
\* (mutant) the range test without its lower end
EdCountOk_AcceptsZero(count) == count <= ED_COUNT_MAX

\* if count > 0 && count <= 0x10_0000
EdCountOk(count) == count > 0 /\ count <= ED_COUNT_MAX

StartEnergyDetectCall(count) ==
    /\ pc = "idle"
    /\ op' = "start_energy_detect"
    /\ data' = <<count>>
    /\ IF EdCountOk(count)
         THEN /\ pc' = "ed_check"
              /\ ret' = ret
         ELSE /\ pc' = "returned"
              /\ ret' = Ret("bool", 0)
    /\ UNCHANGED <<hwvars, buffer, state, length, cbuf>>
    /\ UNCHANGED auxvars

\* (mutant) the EDEND interrupt is enabled on top of those already enabled
StartEnergyDetectBody_KeepsInterrupts ==
    /\ pc = "sed_body"
    /\ edcnt' = data[1] - 1
    /\ shorts' = EdShorts
    /\ ev' = ClearEv("EDEND")
    /\ intens' = intens \cup {"EDEND"}
    /\ hwstate' = TaskRxen(hwstate)
    /\ ret' = Ret("bool", 1)
    /\ data' = <<>>
    /\ pc' = "returned"
    /\ UNCHANGED <<packetptr, edsample, rxframe, buffer, state, op, length, cbuf>>
    /\ UNCHANGED auxvars

\* edcnt, the shortcuts, EDEND cleared, only the EDEND interrupt, tasks_rxen
StartEnergyDetectBody ==
    /\ pc = "sed_body"
    /\ edcnt' = data[1] - 1
    /\ shorts' = EdShorts
    /\ ev' = ClearEv("EDEND")
    /\ intens' = {"EDEND"}
    /\ hwstate' = TaskRxen(hwstate)
    /\ ret' = Ret("bool", 1)
    /\ data' = <<>>
    /\ pc' = "returned"
    /\ UNCHANGED <<packetptr, edsample, rxframe, buffer, state, op, length, cbuf>>
    /\ UNCHANGED auxvars

\* (mutant) the level is returned with the event left latched
ReportEnergyDetect_KeepsEvent ==
    /\ pc = "idle"
    /\ op' = "report_energy_detect"
    /\ pc' = "returned"
    /\ IF ev["EDEND"]
         THEN /\ intens' = StdInts
              /\ ret' = Ret("Some", edsample)
         ELSE /\ ret' = Ret("None", 0)
              /\ intens' = intens
    /\ UNCHANGED <<hwstate, shorts, ev, packetptr, edcnt, edsample, rxframe,
                   buffer, state, data, length, cbuf>>
    /\ UNCHANGED auxvars

\* events_edend read; reset; edsample read; configure_interrupts; Some(level)
ReportEnergyDetect ==
    /\ pc = "idle"
    /\ op' = "report_energy_detect"
    /\ pc' = "returned"
    /\ IF ev["EDEND"]
         THEN /\ ev' = ClearEv("EDEND")
              /\ intens' = StdInts
              /\ ret' = Ret("Some", edsample)
         ELSE /\ ret' = Ret("None", 0)
              /\ UNCHANGED <<ev, intens>>
    /\ UNCHANGED <<hwstate, shorts, packetptr, edcnt, edsample, rxframe,
                   buffer, state, data, length, cbuf>>
    /\ UNCHANGED auxvars

(***************************************************************************)
(* The RADIO peripheral: its state machine and the shortcuts               *)
(***************************************************************************)
\* The peripheral moves at any time; a returned result is taken before it
\* moves on (taking the result commutes with every step of the peripheral).
ResultTaken == pc # "returned"

swvars == <<buffer, state, pc, op, data, length, cbuf, ret>>
swnobuf == <<state, pc, op, data, length, cbuf, ret>>

\* the receiver has ramped up: READY, then whichever shortcut is wired to it
HwRxReady ==
    /\ ResultTaken
    /\ hwstate = "RXRU"
    /\ ev' = SetEv("READY")
    /\ hwstate' = IF "RXREADY_START" \in shorts THEN "RX"
                  ELSE IF "RXREADY_CCASTART" \in shorts THEN "CCA"
                  ELSE IF "READY_EDSTART" \in shorts THEN "ED"
                  ELSE "RXIDLE"
    /\ UNCHANGED <<shorts, packetptr, intens, edcnt, edsample, rxframe, swvars>>
    /\ UNCHANGED auxvars

\* a frame starts to arrive: its PHY header is stored first, and the bit
\* counter matches
HwRxStart(h) ==
    /\ ResultTaken
    /\ hwstate = "RX"
    /\ rxframe = NoFrame
    /\ rxframe' = h
    /\ buffer' = IF packetptr = "buffer" THEN [buffer EXCEPT ![0] = h] ELSE buffer
    /\ ev' = SetEv("BCMATCH")
    /\ UNCHANGED <<hwstate, shorts, packetptr, intens, edcnt, edsample, swnobuf>>
    /\ UNCHANGED auxvars

\* the frame is complete: its octets are stored, PHYEND
HwRxEnd ==
    /\ ResultTaken
    /\ hwstate = "RX"
    /\ rxframe # NoFrame
    /\ buffer' = IF packetptr = "buffer"
                   THEN [i \in BufIdx |->
                           IF i >= 1 /\ i <= (rxframe % 128) + 1
                             THEN FrameOctet(rxframe, i) ELSE buffer[i]]
                   ELSE buffer
    /\ rxframe' = NoFrame
    /\ ev' = SetEv("PHYEND")
    /\ hwstate' = IF "PHYEND_DISABLE" \in shorts THEN "RXDISABLE"
                  ELSE IF "PHYEND_START" \in shorts THEN "RX"
                  ELSE "RXIDLE"
    /\ UNCHANGED <<shorts, packetptr, intens, edcnt, edsample, swnobuf>>
    /\ UNCHANGED auxvars

\* clear channel assessment finds the channel idle
HwCcaIdle ==
    /\ ResultTaken
    /\ hwstate = "CCA"
    /\ hwstate' = IF "CCAIDLE_TXEN" \in shorts THEN "TXRU" ELSE "RXIDLE"
    /\ UNCHANGED <<shorts, ev, packetptr, intens, edcnt, edsample, rxframe, swvars>>
    /\ UNCHANGED auxvars

\* clear channel assessment finds the channel busy
HwCcaBusy ==
    /\ ResultTaken
    /\ hwstate = "CCA"
    /\ ev' = SetEv("CCABUSY")
    /\ hwstate' = IF "CCABUSY_DISABLE" \in shorts THEN "RXDISABLE" ELSE "RXIDLE"
    /\ UNCHANGED <<shorts, packetptr, intens, edcnt, edsample, rxframe, swvars>>
    /\ UNCHANGED auxvars

\* the transmitter has ramped up: READY, then TXREADY->START
HwTxReady ==
    /\ ResultTaken
    /\ hwstate = "TXRU"
    /\ ev' = SetEv("READY")
    /\ hwstate' = IF "TXREADY_START" \in shorts THEN "TX" ELSE "TXIDLE"
    /\ UNCHANGED <<shorts, packetptr, intens, edcnt, edsample, rxframe, swvars>>
    /\ UNCHANGED auxvars

\* the frame has been sent: PHYEND
HwTxEnd ==
    /\ ResultTaken
    /\ hwstate = "TX"
    /\ ev' = SetEv("PHYEND")
    /\ hwstate' = IF "PHYEND_DISABLE" \in shorts THEN "TXDISABLE"
                  ELSE IF "PHYEND_START" \in shorts THEN "TX"
                  ELSE "TXIDLE"
    /\ UNCHANGED <<shorts, packetptr, intens, edcnt, edsample, rxframe, swvars>>
    /\ UNCHANGED auxvars

\* the energy detection has taken its samples: EDEND
HwEdEnd(l) ==
    /\ ResultTaken
    /\ hwstate = "ED"
    /\ ev' = SetEv("EDEND")
    /\ edsample' = l
    /\ hwstate' = IF "EDEND_DISABLE" \in shorts THEN "RXDISABLE" ELSE "RXIDLE"
    /\ UNCHANGED <<shorts, packetptr, intens, edcnt, rxframe, swvars>>
    /\ UNCHANGED auxvars

\* the ramp down has ended: DISABLED
HwDisabled ==
    /\ ResultTaken
    /\ hwstate \in {"RXDISABLE", "TXDISABLE"}
    /\ hwstate' = "DISABLED"
    /\ ev' = SetEv("DISABLED")
    /\ UNCHANGED <<shorts, packetptr, intens, edcnt, edsample, rxframe, swvars>>
    /\ UNCHANGED auxvars

(***************************************************************************)
(* The caller                                                              *)
(***************************************************************************)
\* The caller takes what the operation returned (and its buffer back): the
\* state an operation returns in shows its result, the next one does not.
CallerTakesResult ==
    /\ pc = "returned"
    /\ pc' = "idle"
    /\ op' = "none"
    /\ ret' = NoRet
    /\ cbuf' = NoBuffer
    /\ data' = <<>>
    /\ UNCHANGED <<hwvars, buffer, state, length>>
    /\ UNCHANGED auxvars

(***************************************************************************)
(* Radio::set_channel and Radio::get_channel                               *)
(***************************************************************************)
\* the radio's own registers and fields, apart from where the program is
rest == <<hwvars, buffer, state, op, data, length, cbuf, ret>>

\* (mutant) the offset counted from channel 11
FrequencyOffset_FromEleven(channel) == ((channel - 11) * 5) % 256

\* let frequency_offset = (channel - 10) * 5, in u8
FrequencyOffset(channel) == ((channel - 10) * 5) % 256

\* (frequency_offset / 5) + 10, in u8
ChannelOf(offset) == ((offset \div 5) + 10) % 256

\* panics outside 11..26; writes the 7 bit FREQUENCY field
SetChannel(channel) ==
    /\ pc = "idle"
    /\ IF channel < 11 \/ channel > 26
         THEN /\ pc' = "panicked"
              /\ last' = Call("set_channel", channel, U32(0), U32(0))
              /\ UNCHANGED frequency
         ELSE /\ frequency' = FrequencyOffset(channel) % 128
              /\ last' = Call("set_channel", channel, U32(0), U32(0))
              /\ UNCHANGED pc
    /\ UNCHANGED <<rest, timervars>>

GetChannel ==
    /\ pc = "idle"
    /\ last' = Call("get_channel", 0, U32(0), U32(ChannelOf(frequency)))
    /\ UNCHANGED <<pc, rest, frequency, timervars>>

(***************************************************************************)
(* impl Timer for TIMER0 / TIMER1, and the TIMER peripheral                *)
(***************************************************************************)
\* current.wrapping_add(elapsed)
WrappingAdd(a, b) ==
    LET low == a[2] + b[2]
    IN <<(a[1] + b[1] + (low \div Half)) % Half, low % Half>>

\* INTENSET: a one enables, a zero changes nothing
IntenSet(enabled, ones) == enabled \cup ones

\* INTENCLR: a one disables, a zero changes nothing
IntenClr(enabled, ones) == enabled \ ones

\* assert!(id > 0 && id <= 5)
TimerIdOk(id) == id > 0 /\ id <= 5

TimerCall == pc = "idle" /\ tcalls < MaxTimerCalls /\ tcalls' = tcalls + 1

\* stop, 32 bit timer mode, prescaler 4, cc[1..3] = 0, clear, start
TimerInit ==
    /\ TimerCall
    /\ cc' = [i \in TimerChannels |-> IF i \in 1..3 THEN U32(0) ELSE cc[i]]
    /\ counter' = U32(0)
    /\ running' = TRUE
    /\ last' = Call("init", 0, U32(0), U32(0))
    /\ UNCHANGED <<pc, rest, frequency, events_compare, timer_inten>>

\* (mutant) the interrupt enable register written as a plain register
FireIn_PlainIntenWrite(id, elapsed) ==
    /\ TimerCall
    /\ last' = Call("fire_in", id, elapsed, U32(0))
    /\ IF TimerIdOk(id)
         THEN /\ cc' = [cc EXCEPT ![id] = WrappingAdd(cc[id], elapsed)]
              /\ events_compare' = [events_compare EXCEPT ![id] = FALSE]
              /\ timer_inten' = IF id \in WiredChannels
                                  THEN {id} ELSE timer_inten
              /\ UNCHANGED pc
         ELSE /\ pc' = "panicked"
              /\ UNCHANGED <<cc, events_compare, timer_inten>>
    /\ UNCHANGED <<rest, frequency, counter, running>>

\* cc[id] read, elapsed added, cc[id] written; the event reset; the
\* interrupt of channels 1..3 enabled with a one written to INTENSET
FireIn(id, elapsed) ==
    /\ TimerCall
    /\ last' = Call("fire_in", id, elapsed, U32(0))
    /\ IF TimerIdOk(id)
         THEN /\ cc' = [cc EXCEPT ![id] = WrappingAdd(cc[id], elapsed)]
              /\ events_compare' = [events_compare EXCEPT ![id] = FALSE]
              /\ timer_inten' = IF id \in WiredChannels
                                  THEN IntenSet(timer_inten, {id})
                                  ELSE timer_inten
              /\ UNCHANGED pc
         ELSE /\ pc' = "panicked"
              /\ UNCHANGED <<cc, events_compare, timer_inten>>
    /\ UNCHANGED <<rest, frequency, counter, running>>

\* intenclr.write(|w| w.compareN().clear_bit()) writes a zero to every bit
\* of INTENCLR; the event reset
Stop(id) ==
    /\ TimerCall
    /\ last' = Call("stop", id, U32(0), U32(0))
    /\ IF TimerIdOk(id)
         THEN /\ timer_inten' = IF id \in WiredChannels
                                  THEN IntenClr(timer_inten, {})
                                  ELSE timer_inten
              /\ events_compare' = [events_compare EXCEPT ![id] = FALSE]
              /\ UNCHANGED pc
         ELSE /\ pc' = "panicked"
              /\ UNCHANGED <<events_compare, timer_inten>>
    /\ UNCHANGED <<rest, frequency, cc, counter, running>>

\* tasks_capture[0], then cc[0] read
Now ==
    /\ TimerCall
    /\ cc' = [cc EXCEPT ![0] = counter]
    /\ last' = Call("now", 0, U32(0), counter)
    /\ UNCHANGED <<pc, rest, frequency, events_compare, timer_inten, counter, running>>

AckCompareEvent(id) ==
    /\ TimerCall
    /\ events_compare' = [events_compare EXCEPT ![id] = FALSE]
    /\ last' = Call("ack_compare_event", id, U32(0), U32(0))
    /\ UNCHANGED <<pc, rest, frequency, cc, timer_inten, counter, running>>

IsCompareEvent(id) ==
    /\ TimerCall
    /\ last' = Call("is_compare_event", id, U32(0),
                   IF events_compare[id] THEN U32(1) ELSE U32(0))
    /\ UNCHANGED <<pc, rest, frequency, cc, events_compare, timer_inten, counter, running>>

\* one microsecond passes: the counter counts, and every channel whose
\* compare register it reaches latches its compare event
TimerTick ==
    /\ running
    /\ counter[1] = 0 /\ counter[2] < MaxNow
    /\ counter' = WrappingAdd(counter, U32(1))
    /\ events_compare' = [i \in TimerChannels |->
                             events_compare[i] \/ cc[i] = counter']
    /\ UNCHANGED <<pc, rest, frequency, cc, timer_inten, running, tcalls, last>>

(***************************************************************************)
(* The system                                                              *)
(***************************************************************************)
\* steps of the peripheral that end by themselves once started
HwRadioProgress ==
    \/ HwRxReady
    \/ HwCcaIdle
    \/ HwCcaBusy
    \/ HwTxReady
    \/ HwTxEnd
    \/ HwDisabled

HwProgress ==
    \/ HwRadioProgress
    \/ \E l \in EdLevels : HwEdEnd(l)

\* steps of the peripheral that depend on what is on the air
HwAir ==
    \/ \E h \in Headers : HwRxStart(h)
    \/ HwRxEnd

\* the same, with one ordinary frame on the air
HwAirLive ==
    \/ HwRxStart(MaxRxLen)
    \/ HwRxEnd

\* the steps inside a receive or transmit operation that has been called
SwRadioContinue ==
    \/ EnterDisabledCheck
    \/ EnterDisabledTask
    \/ EnterDisabledWait
    \/ EnterDisabledReset
    \/ ReceivePrepareArm
    \/ ReceiveSliceDisabled
    \/ ReceiveSliceReady
    \/ ReceiveSliceCcaBusy
    \/ ReceiveSliceCcaClear
    \/ ReceiveSliceBcMatch
    \/ QueueTransmissionStart

\* the steps inside any operation that has been called
SwContinue ==
    \/ SwRadioContinue
    \/ \E d \in Payloads : QueueTransmissionWrite(d)
    \/ StartEnergyDetectBody

\* the calls the owner of the Radio makes
SwCall ==
    \/ ReceivePrepareCall
    \/ \E f \in CallerFills : ReceiveSlicePhyend(f)
    \/ QueueTransmissionCall
    \/ \E c \in Counts : StartEnergyDetectCall(c)
    \/ ReportEnergyDetect

Next == HwProgress \/ HwAir \/ SwContinue \/ SwCall \/ CallerTakesResult

Spec == Init /\ [][Next]_vars

\* The transmit and receive paths alone, under the scheduling the driver
\* relies on: the peripheral finishes what it has started, an operation that
\* was called runs on, and the caller takes its result and polls when it has
\* nothing else to do.  Nothing makes a frame arrive, and nothing makes the
\* caller call anything but the poll.  The peripheral runs by itself, so its
\* steps are strongly fair: waiting for a result to be taken (ResultTaken)
\* never holds it back for good.
SwCallLive ==
    \/ ReceivePrepareCall
    \/ \E f \in CallerFills : ReceiveSlicePhyend(f)
    \/ QueueTransmissionCall

SwContinueLive ==
    \/ SwRadioContinue
    \/ \E d \in Payloads : QueueTransmissionWrite(d)

NextLive ==
    HwRadioProgress \/ HwAirLive \/ SwContinueLive \/ SwCallLive \/ CallerTakesResult

Poll == \E f \in CallerFills : ReceiveSlicePhyend(f)

SpecLive ==
    /\ Init
    /\ [][NextLive]_vars
    /\ SF_vars(HwRadioProgress)
    /\ WF_vars(SwContinueLive)
    /\ WF_vars(CallerTakesResult)
    /\ WF_vars(Poll)

\* The energy detection among the other operations, with no frame on the
\* air: sample counts at both ends of the range, two sampled levels.
HwProgressEd ==
    \/ HwRadioProgress
    \/ \E l \in EdSamples : HwEdEnd(l)

SwCallEd ==
    \/ ReceivePrepareCall
    \/ \E f \in CallerFills : ReceiveSlicePhyend(f)
    \/ QueueTransmissionCall
    \/ \E c \in EdCounts : StartEnergyDetectCall(c)
    \/ ReportEnergyDetect

NextEd == HwProgressEd \/ SwContinue \/ SwCallEd \/ CallerTakesResult

SpecEd == Init /\ [][NextEd]_vars

\* The same system when the peripheral finishes what it has started and an
\* operation that was called runs on.  The peripheral is held while a result
\* waits for the caller, hence strong fairness for it.
SpecEdFair ==
    /\ SpecEd
    /\ SF_vars(HwProgressEd)
    /\ WF_vars(SwContinue)

\* The Timer taken alone.
NextTimer ==
    \/ TimerInit
    \/ \E id \in TimerIds, d \in Delays : FireIn(id, d)
    \/ \E id \in TimerIds : Stop(id)
    \/ Now
    \/ \E id \in TimerChannels : AckCompareEvent(id)
    \/ \E id \in TimerChannels : IsCompareEvent(id)
    \/ TimerTick

SpecTimer == Init /\ [][NextTimer]_vars

\* The channel selection taken alone.
NextChannel ==
    \/ \E c \in Channels : SetChannel(c)
    \/ GetChannel

SpecChannel == Init /\ [][NextChannel]_vars

TypeOK ==
    /\ hwstate \in RxStates \cup TxStates \cup {"DISABLED", "RXDISABLE", "TXDISABLE"}
    /\ shorts \in {{}, RxShorts, TxShorts, EdShorts}
    /\ state \in {0, STATE_SEND}
    /\ \A i \in BufIdx : buffer[i] \in Byte /\ cbuf[i] \in Byte

(***************************************************************************)
(* Properties                                                              *)
(***************************************************************************)
\* the positions inside receive_slice before its return
PollPcs == {"rs_disabled", "rs_ready", "rs_ccabusy", "rs_bcmatch"}

\* the caller's buffer is as it was handed in
Untouched(b) == \E f \in CallerFills : b = Fresh(f)

\* C1: while SEND is set, a poll that observes PHYEND decodes length 0 and
\* leaves the caller's buffer alone, the poll reports the length it decoded,
\* and SEND goes from set to clear only in the step of receive_slice that
\* finds the DISABLED event latched.
C1_SendDiscardsAndClearsOnDisabled ==
    [][ /\ (pc = "idle" /\ pc' = "rs_disabled" /\ ev["PHYEND"] /\ IsSend(state))
              => (length' = 0 /\ Untouched(cbuf') /\ ~ev'["PHYEND"])
        /\ (pc \in PollPcs /\ pc' \in PollPcs) => (length' = length /\ cbuf' = cbuf)
        /\ (pc = "rs_bcmatch" /\ pc' = "returned") => ret' = Ret("Ok", length)
        /\ (IsSend(state) /\ ~IsSend(state'))
              => (pc = "rs_disabled" /\ pc' = "rs_ready"
                  /\ ev["DISABLED"] /\ ~ev'["DISABLED"]) ]_vars

\* C1 witness: the poll has just cleared SEND on DISABLED, after the PHYEND
\* of the transmitted frame (payload octet still in the buffer) was discarded.
C1_Witness ==
    /\ pc = "rs_ready"
    /\ ~IsSend(state)
    /\ hwstate = "RXRU"
    /\ buffer[0] = 0
    /\ buffer[1] = 81
    /\ length = 0
    /\ Untouched(cbuf)

\* queue_transmission has just returned, with SEND set
JustQueued == pc = "returned" /\ op = "queue_transmission" /\ ret.kind = "Ok"

\* the caller has called something other than receive_slice
OtherCall == pc # "returned" /\ op \notin {"none", "receive_slice"}

\* C2: after queue_transmission has set SEND, if the caller only polls
\* receive_slice (and the peripheral finishes what it started), SEND is
\* eventually cleared, whether the transmission ends by PHYEND or by CCABUSY
\* and however the CCABUSY and DISABLED events fall between the poll's reads.
C2_SendEventuallyCleared ==
    (JustQueued /\ IsSend(state)) ~> (~IsSend(state) \/ OtherCall)

\* the positions of a poll that has seen CCABUSY, up to its return
CcaPathPcs == {"ed_check", "ed_task", "ed_wait", "ed_reset", "rp_arm", "rs_cca_clear"}

\* C3: a poll that reads CCABUSY set enters receive_prepare; the barrier
\* leaves the radio DISABLED with the DISABLED event clear, the receive
\* shortcuts are installed and RXEN ramps the receiver up; CCABUSY then is
\* cleared and the poll returns the CcaBusy error, whatever length it decoded.
C3_CcaBusyRearmsAndFails ==
    /\ []((op = "receive_slice" /\ pc \in CcaPathPcs) => ev["CCABUSY"])
    /\ [][ /\ (pc = "rs_ccabusy" /\ pc' # pc /\ ev["CCABUSY"]) => pc' = "ed_check"
           /\ (pc = "rp_arm" /\ pc' # pc /\ op = "receive_slice")
                 => (/\ hwstate = "DISABLED" /\ ~ev["DISABLED"]
                     /\ shorts' = RxShorts /\ hwstate' = "RXRU"
                     /\ pc' = "rs_cca_clear")
           /\ (pc = "rs_cca_clear" /\ pc' # pc)
                 => (/\ pc' = "returned" /\ ret' = Ret("Err", 0)
                     /\ ~ev'["CCABUSY"]
                     /\ shorts' = RxShorts /\ hwstate' \in {"RXRU", "RX"}) ]_vars

\* C3 witness: a poll returns CcaBusy with the receiver re-armed, after the
\* PHYEND of a transmitted frame was handled (header zeroed, payload left).
C3_Witness ==
    /\ pc = "returned" /\ op = "receive_slice" /\ ret = Ret("Err", 0)
    /\ shorts = RxShorts /\ hwstate = "RXRU"
    /\ ~ev["CCABUSY"] /\ ~ev["PHYEND"]
    /\ buffer[0] = 0 /\ buffer[1] = 81

\* A poll on its CCABUSY path never holds a decoded length: CCABUSY is only
\* latched under SEND, and SEND is cleared after the PHYEND branch has run.
CcaPathLengthZero == (op = "receive_slice" /\ pc \in CcaPathPcs) => length = 0

\* the radio listens with the receive shortcuts installed
Listening == shorts = RxShorts /\ hwstate = "RX"

\* C4: a poll that finds DISABLED latched while SEND is set installs exactly
\* the receive shortcuts, ramps the receiver up from DISABLED, clears SEND
\* and clears the DISABLED event; and after every queue_transmission, if the
\* caller only polls, the radio is eventually listening again with the
\* receive shortcuts installed.
C4_BackToReceiveAfterTransmission ==
    /\ [][ (pc = "rs_disabled" /\ pc' # pc /\ ev["DISABLED"] /\ IsSend(state))
              => (/\ shorts' = RxShorts
                  /\ hwstate = "DISABLED" /\ hwstate' = "RXRU"
                  /\ ~IsSend(state') /\ ~ev'["DISABLED"]) ]_vars
    /\ JustQueued ~> (Listening \/ OtherCall)

\* C4 witness: listening again, SEND cleared, with the payload of the
\* transmitted frame still in the buffer behind its zeroed header.
C4_Witness ==
    /\ Listening /\ ~IsSend(state)
    /\ buffer[0] = 0 /\ buffer[1] = 81
    /\ pc = "idle"


\* between the branches of a poll the decoded length and the caller's buffer
\* stay as the PHYEND branch left them, and the poll returns that length
PollReportsLength ==
    /\ (pc \in PollPcs /\ pc' \in PollPcs) => (length' = length /\ cbuf' = cbuf)
    /\ (pc = "rs_bcmatch" /\ pc' = "returned") => ret' = Ret("Ok", length)

\* a poll starts and finds PHYEND latched
PollSeesPhyend == pc = "idle" /\ pc' = "rs_disabled" /\ ev["PHYEND"]

C6_MarkedHeaderReportsZero ==
    /\ \A phr \in 128..255 : DecodeLength(phr) = 0
    /\ [][  /\ (PollSeesPhyend /\ buffer[0] \in 128..255)
                => (/\ length' = 0
                    /\ buffer'[0] = 0
                    /\ ~ev'["PHYEND"]
                    /\ Untouched(cbuf'))
            /\ PollReportsLength ]_vars

\* C6 witness: the frame with a marked header has been polled with SEND clear.
C6_Witness ==
    /\ pc = "rs_disabled" /\ ~IsSend(state) /\ ~ev["PHYEND"]
    /\ length = 0 /\ buffer[0] = 0
    /\ buffer[1] = FrameOctet(128 + MaxRxLen, 1)
    /\ rxframe = NoFrame
    /\ Untouched(cbuf)

\* the five shortcuts of the transmit chain
TransmitChain ==
    {"RXREADY_CCASTART", "CCAIDLE_TXEN", "TXREADY_START",
     "CCABUSY_DISABLE", "PHYEND_DISABLE"}

\* the internal buffer holds the frame queue_transmission builds from d
HoldsFrame(b, d) ==
    /\ b[0] = Len(d) + 2
    /\ \A i \in 1..Len(d) : b[i] = d[i]

\* C7: for a payload of length L with L + 2 < 128, queue_transmission writes
\* L + 2 to buffer[0] and the payload to buffer[1..=L], installs the five
\* transmit shortcuts, then issues RX-enable (the buffer already written),
\* sets SEND and returns L.
C7_QueueTransmissionWritesFrame ==
    [][ /\ (pc = "qt_write" /\ pc' # pc /\ Len(data') + 2 < 128)
            => (/\ pc' = "qt_start"
                /\ HoldsFrame(buffer', data')
                /\ \A i \in (Len(data') + 1)..(MAX_PACKET_LENGHT - 1) :
                      buffer'[i] = buffer[i]
                /\ shorts' = TransmitChain
                /\ hwstate = "DISABLED" /\ hwstate' = "DISABLED")
        /\ (pc = "qt_start" /\ pc' # pc)
            => (/\ HoldsFrame(buffer, data) /\ buffer' = buffer
                /\ shorts = TransmitChain /\ shorts' = shorts
                /\ hwstate = "DISABLED" /\ hwstate' = "RXRU"
                /\ IsSend(state')
                /\ pc' = "returned"
                /\ ret' = Ret("Ok", Len(data))) ]_vars

\* C7 witness: the longest payload that is accepted has been queued.
C7_Witness ==
    /\ pc = "returned" /\ op = "queue_transmission" /\ ret = Ret("Ok", 125)
    /\ HoldsFrame(buffer, Payload(125))
    /\ shorts = TransmitChain /\ hwstate = "RXRU" /\ IsSend(state)

\* C8: queue_transmission with a payload of length L where L + 2 >= 128
\* fails at its assertion: the internal buffer, the shortcuts and SEND are
\* as they were, no RX-enable is issued, and nothing is returned.
C8_TooLongFailsFast ==
    /\ [][ (pc = "qt_write" /\ pc' # pc /\ Len(data') + 2 >= 128)
              => (/\ pc' = "panicked"
                  /\ buffer' = buffer
                  /\ shorts' = shorts
                  /\ state' = state
                  /\ hwstate = "DISABLED" /\ hwstate' = "DISABLED") ]_vars
    /\ [](pc = "panicked" => (hwstate = "DISABLED" /\ ret = Ret("panic", 0)))
    /\ [][pc = "panicked" => (pc' = "panicked" /\ swvars' = swvars)]_vars

\* C8 witness: a 126 octet payload was refused after a frame had been
\* received; the buffer still holds that frame, the receive shortcuts are
\* still installed.
C8_Witness ==
    /\ pc = "panicked" /\ Len(data) = 126
    /\ shorts = RxShorts /\ ~IsSend(state)
    /\ buffer[0] = 1 /\ buffer[1] = FrameOctet(1, 1)

\* everything a poll could change besides its own position and result
PollFrame == <<hwstate, shorts, ev, packetptr, intens, buffer, state>>

\* C9: a poll that finds none of PHYEND, DISABLED, READY, CCABUSY, BCMATCH
\* latched changes nothing: every branch that reads its flag clear leaves
\* the internal buffer, SEND, the shortcuts, the packet pointer, the radio
\* (no task) and the caller's buffer as they were; and the poll returns 0.
C9_QuietPollChangesNothing ==
    [][ /\ (pc = "idle" /\ pc' = "rs_disabled" /\ ~ev["PHYEND"])
            => (PollFrame' = PollFrame /\ length' = 0 /\ Untouched(cbuf'))
        /\ (pc = "rs_disabled" /\ pc' # pc /\ ~ev["DISABLED"])
            => (PollFrame' = PollFrame /\ pc' = "rs_ready")
        /\ (pc = "rs_ready" /\ pc' # pc /\ ~ev["READY"])
            => (PollFrame' = PollFrame /\ pc' = "rs_ccabusy")
        /\ (pc = "rs_ccabusy" /\ pc' # pc /\ ~ev["CCABUSY"])
            => (PollFrame' = PollFrame /\ pc' = "rs_bcmatch")
        /\ (pc = "rs_bcmatch" /\ pc' # pc /\ ~ev["BCMATCH"])
            => (PollFrame' = PollFrame /\ pc' = "returned")
        /\ PollReportsLength ]_vars

\* C9 witness: the first thing the caller did was to poll; nothing had been
\* started, so no flag was latched, and the poll returned 0.
C9_Witness ==
    /\ pc = "returned" /\ op = "receive_slice" /\ ret = Ret("Ok", 0)
    /\ hwstate = "DISABLED" /\ shorts = {} /\ packetptr = "null"
    /\ \A e \in Events : ~ev[e]
    /\ ~IsSend(state) /\ Untouched(cbuf)

\* a step of the peripheral alone: the driver is where it was
HwStep == pc' = pc

\* C10: receive_prepare arms the radio (receive shortcuts, RX-enable from
\* DISABLED); from then on the steps of the peripheral keep it in the
\* receive states with the receive shortcuts, and a frame that completes
\* latches PHYEND and leaves the radio listening for the next frame.
C10_ArmedReceiverKeepsListening ==
    [][ /\ (pc = "rp_arm" /\ pc' # pc)
            => (hwstate = "DISABLED" /\ hwstate' = "RXRU" /\ shorts' = RxShorts)
        /\ (HwStep /\ shorts = RxShorts /\ hwstate \in {"RXRU", "RX"})
            => (/\ shorts' = RxShorts
                /\ hwstate' \in {"RXRU", "RX"}
                /\ (rxframe # NoFrame /\ rxframe' = NoFrame)
                      => (ev'["PHYEND"] /\ hwstate' = "RX")) ]_vars

\* C10 witness: armed by receive_prepare and never polled, the radio has
\* completed one frame and is receiving the next.
C10_Witness ==
    /\ pc = "idle" /\ shorts = RxShorts /\ hwstate = "RX"
    /\ ev["PHYEND"] /\ rxframe # NoFrame
    /\ packetptr = "null" /\ ~IsSend(state)

\* C11: report_energy_detect returns a level exactly when EDEND is latched,
\* and clears it, so the next report returns nothing; EDEND is clear at the
\* start and is latched only by the peripheral at the end of a detection; a
\* detection runs only under the shortcuts that start_energy_detect
\* installs (which also clears EDEND); the level returned is the sample the
\* peripheral stored at that end.
C11_ReportOncePerDetection ==
    /\ [](hwstate = "ED" => shorts = EdShorts)
    /\ [][  /\ (pc = "idle" /\ op' = "report_energy_detect")
                => (/\ pc' = "returned"
                    /\ ~ev'["EDEND"]
                    /\ ret' = IF ev["EDEND"] THEN Ret("Some", edsample)
                                              ELSE Ret("None", 0))
            /\ (~ev["EDEND"] /\ ev'["EDEND"])
                => (HwStep /\ hwstate = "ED" /\ hwstate' # "ED")
            /\ (edsample' # edsample) => (~ev["EDEND"] /\ ev'["EDEND"])
            /\ (hwstate # "ED" /\ hwstate' = "ED")
                => (HwStep /\ hwstate = "RXRU" /\ shorts = EdShorts)
            /\ (shorts # EdShorts /\ shorts' = EdShorts)
                => (op = "start_energy_detect" /\ pc = "sed_body"
                    /\ ~ev'["EDEND"]) ]_vars

\* C11 witness: the level 7 sampled by a detection of 0x100000 samples has
\* been reported, and the event is clear again.
C11_Witness ==
    /\ pc = "returned" /\ op = "report_energy_detect" /\ ret = Ret("Some", 7)
    /\ ~ev["EDEND"] /\ edsample = 7
    /\ edcnt = ED_COUNT_MAX - 1

\* C12: start_energy_detect with count 0 or count above 0x100000 returns
\* false and leaves the peripheral as it was (state, shortcuts, sample
\* counter, events, interrupt enables; no task); with a count in
\* 1..0x100000 it goes on, writes count - 1 to the sample counter and
\* returns true.
C12_CountRangeChecked ==
    /\ \A c \in EdCounts : EdCountOk(c) <=> (c >= 1 /\ c <= 1048576)
    /\ [][  /\ (pc = "idle" /\ op' = "start_energy_detect")
                => IF data'[1] = 0 \/ data'[1] > 1048576
                     THEN /\ pc' = "returned"
                          /\ ret' = Ret("bool", 0)
                          /\ hwvars' = hwvars
                     ELSE /\ pc' = "ed_check"
                          /\ hwvars' = hwvars
            /\ (pc = "sed_body" /\ pc' # pc)
                => (/\ op = "start_energy_detect"
                    /\ edcnt' = data[1] - 1
                    /\ pc' = "returned"
                    /\ ret' = Ret("bool", 1)) ]_vars

\* C12 witness: the largest count was accepted and programmed.
C12_Witness ==
    /\ pc = "returned" /\ op = "start_energy_detect" /\ ret = Ret("bool", 1)
    /\ edcnt = ED_COUNT_MAX - 1 /\ shorts = EdShorts /\ hwstate = "RXRU"

\* the interrupts Radio::new enables
StandardInterrupts == {"READY", "DISABLED", "CCABUSY", "PHYEND", "BCMATCH"}

\* C13: the enabled interrupts are always either the standard five or
\* EDEND alone; they become EDEND alone only at the end of a successful
\* start_energy_detect, and the standard five again only in a
\* report_energy_detect that returns a level; both always do so.
C13_InterruptSets ==
    /\ [](intens = StandardInterrupts \/ intens = {"EDEND"})
    /\ [][  /\ (pc = "sed_body" /\ pc' # pc) => intens' = {"EDEND"}
            /\ (pc = "idle" /\ op' = "report_energy_detect" /\ ret'.kind = "Some")
                => intens' = StandardInterrupts
            /\ (intens' # intens)
                => \/ pc = "sed_body" /\ ret' = Ret("bool", 1)
                   \/ pc = "idle" /\ op' = "report_energy_detect"
                         /\ ret'.kind = "Some" ]_vars

\* C13 witness: the detection was started and never reported; polls later,
\* with the radio receiving again, EDEND is still the only interrupt enabled.
C13_Witness ==
    /\ intens = {"EDEND"}
    /\ pc = "returned" /\ op = "receive_slice"
    /\ shorts = RxShorts /\ hwstate = "RX"

\* a call to the Timer has just been made
TimerCalled(o) == tcalls' # tcalls /\ last'.op = o

\* C14 (as stated): for every id in 1..5 and every delay d, after
\* fire_in(id, d) the compare register of the channel holds the counter's
\* value at the call plus d, modulo 2^32, whatever it held before.
C14_FireInCountsFromNow ==
    [][ (TimerCalled("fire_in") /\ last'.id \in 1..5)
          => cc'[last'.id] = WrappingAdd(counter, last'.arg) ]_vars

\* C15 (as stated): for every id in 1..3 armed by fire_in, after stop(id)
\* the interrupt of the channel is disabled and its compare event is clear.
C15_StopDisarms ==
    [][ (TimerCalled("stop") /\ last'.id \in 1..3 /\ last'.id \in timer_inten)
          => (last'.id \notin timer_inten' /\ ~events_compare'[last'.id]) ]_vars

\* C16: for distinct ids i and j in 1..3, fire_in(i, d), stop(i) and
\* ack_compare_event(i) leave the compare register, the compare event and
\* the interrupt enable of channel j as they were, and leave the compare
\* register of channel 0 as it was.
C16_ChannelsIndependent ==
    [][ (/\ tcalls' # tcalls
         /\ last'.op \in {"fire_in", "stop", "ack_compare_event"}
         /\ last'.id \in 1..3)
          => (/\ \A j \in (1..3) \ {last'.id} :
                    /\ cc'[j] = cc[j]
                    /\ events_compare'[j] = events_compare[j]
                    /\ (j \in timer_inten') <=> (j \in timer_inten)
              /\ cc'[0] = cc[0]) ]_vars

\* C16 witness: channel 2 was armed with a delay that wraps, channel 1 was
\* armed and stopped; channel 2 is as fire_in left it.
C16_Witness ==
    /\ last.op = "stop" /\ last.id = 1
    /\ cc[1] = U32(1)
    /\ cc[2] = MaxU32 /\ 2 \in timer_inten

\* C17: for every channel c in 11..26, set_channel(c) writes the offset
\* (c - 10) * 5, and a get_channel that follows returns c.
C17_ChannelRoundTrip ==
    /\ \A c \in 11..26 : ChannelOf(FrequencyOffset(c) % 128) = c
    /\ [][  /\ (last'.op = "set_channel" /\ last' # last /\ last'.id \in 11..26)
                 => (frequency' = (last'.id - 10) * 5 /\ pc' = "idle")
            /\ (last.op = "set_channel" /\ last'.op = "get_channel")
                 => (last.id \in 11..26 /\ last'.val = U32(last.id)) ]_vars

\* C17 witness: channel 26 was selected and read back.
C17_Witness ==
    /\ last = Call("get_channel", 0, U32(0), U32(26))
    /\ frequency = 80

BarrierPcs == {"ed_check", "ed_task", "ed_wait", "ed_reset"}

\* C18: whenever enter_disabled returns, the radio is DISABLED and the
\* DISABLED event is clear; the disable task is issued only when the radio
\* was not DISABLED at entry.  A DISABLED event left latched is never met
\* with the radio out of DISABLED, so the wait never ends early.
C18_BarrierLeavesDisabled ==
    /\ [](ev["DISABLED"] => hwstate = "DISABLED")
    /\ [][ /\ (pc = "ed_reset" /\ pc' # pc)
                => (/\ pc' = AfterBarrier(op)
                    /\ hwstate' = "DISABLED"
                    /\ ~ev'["DISABLED"])
           /\ (pc = "ed_check" /\ pc' # pc)
                => pc' = IF hwstate = "DISABLED" THEN "ed_reset" ELSE "ed_task"
           /\ (pc \in BarrierPcs /\ pc' # pc /\ hwstate' # hwstate)
                => (pc = "ed_task" /\ hwstate' \in {"RXDISABLE", "TXDISABLE"}) ]_vars

\* C18 witness: receive_prepare was called with a transmission in its clear
\* channel assessment; the barrier has disabled the radio and returned.
C18_Witness ==
    /\ pc = "rp_arm" /\ op = "receive_prepare"
    /\ shorts = TxShorts /\ ev["READY"] /\ ~ev["CCABUSY"] /\ ~ev["PHYEND"]
    /\ hwstate = "DISABLED" /\ ~ev["DISABLED"]

\* an operation has been called and has not ended
OperationRunning == pc \notin {"idle", "returned", "panicked"}

\* C19: every operation that was called ends; the wait of the barrier is
\* the only position where an operation has no step to take; and
\* report_energy_detect ends in the step that calls it.
C19_OnlyTheBarrierBlocks ==
    /\ OperationRunning ~> (pc \in {"returned", "panicked"})
    /\ []((OperationRunning /\ pc # "ed_wait") => ENABLED SwContinue)
    /\ [][(pc = "idle" /\ op' = "report_energy_detect") => pc' = "returned"]_vars

\* C19 witness: queue_transmission was called with the receiver running,
\* waited in the barrier for the radio to be disabled, and has returned.
C19_Witness ==
    /\ pc = "returned" /\ op = "queue_transmission" /\ ret.kind = "Ok"
    /\ ev["READY"] /\ ~ev["PHYEND"] /\ ~ev["CCABUSY"]
    /\ hwstate = "RXRU"

\* C20: the radio is in RX or TX only through a START task (RXREADY->START,
\* TXREADY->START or PHYEND->START), and whenever it is there, PACKETPTR
\* points at the driver's frame buffer: no frame is received into or sent
\* from anywhere else.
C20_StartedOnlyWithPointer ==
    hwstate \in {"RX", "TX"} => packetptr = "buffer"

\* a queued transmission is on its way: the transmit shortcuts are installed
\* and the radio is between the RX-enable of queue_transmission and the
\* PHYEND or CCABUSY that ends the chain
TransmissionPending ==
    /\ shorts = TransmitChain
    /\ hwstate \in {"RXRU", "CCA", "TXRU", "TX"}

\* C21: from the return of queue_transmission until the PHYEND or the
\* CCABUSY of that transmission, the internal buffer holds the frame that
\* queue_transmission wrote: it holds it when the RX-enable task is issued,
\* and no step taken while the transmission is pending changes the buffer,
\* a poll that finds an older PHYEND latched included.
C21_QueuedFrameStaysInBuffer ==
    [][ /\ (pc = "qt_start" /\ pc' # pc)
            => (HoldsFrame(buffer', data) /\ TransmissionPending')
        /\ (TransmissionPending /\ TransmissionPending')
            => buffer' = buffer ]_vars

\* a poll has returned a frame to the caller
Delivered ==
    /\ pc = "returned" /\ op = "receive_slice"
    /\ ret.kind = "Ok" /\ ret.val > 0

\* C22: every frame of non-zero length that receive_slice returns is one
\* frame from the air: the caller's buffer holds the length of a frame h and
\* the octets of that same frame h, whatever the peripheral has written to
\* the internal buffer between the PHYEND and the poll.
C22_DeliversOneFrame ==
    (Delivered /\ packetptr = "buffer")
      => \E h \in Headers :
            /\ h \in 1..127
            /\ ret.val = h /\ cbuf[0] = h
            /\ \A i \in 1..h : cbuf[i] = FrameOctet(h, i)

====
